---- MODULE Spec2Model ----
(***************************************************************************)
(* State-machine model of the operator dashboard (src/unnamed/part_000,    *)
(* the App component, and src/api.ts, its fetch wrappers).                 *)
(*                                                                         *)
(* The component runs on one event loop: every event handler, timer        *)
(* callback and promise continuation runs to completion, and the state     *)
(* changes it makes are committed together with the effects that the       *)
(* changed dependencies trigger.  One action below is therefore one        *)
(* callback together with the effects of the render it causes.  Timers     *)
(* carry no clock: a pending timer may fire at any later point (browsers   *)
(* throttle and coalesce timers), except that one-shot timers of the same  *)
(* delay fire in the order they were created.                              *)
(***************************************************************************)
EXTENDS Integers, Sequences, FiniteSets, TLC

(* ------------------------------ bounds -------------------------------- *)
\* start requests sent over one run
MaxJobs == 2
\* requests of one poller during one job (the immediate one included)
MaxTicks == 2
\* requests of one poller outstanding when an interval tick adds one more
MaxInFlight == 1
\* board-dependent catalog loads outstanding at once
MaxLoads == 2

(* ------------------------- program constants -------------------------- *)
\* setCountdown(8)
WarmupCountdown == 8

(* ------------------------------ values -------------------------------- *)
\* jobId = null, streamUrl = "" : the falsy values; job ids and stream
\* urls returned by the backend are 1, 2, ... (the url of job j is j)
Null == 0
NoBoard == ""
NoSelection == ""
AllBoards == <<"b1", "b2">>
NoError == "none"
FailedToStart == "Failed to start"
Retrying == "Connection error. Retrying..."
NoAlert == "none"
\* profiling = null
NoProfiling == <<>>
\* the lists the events and saved-frames endpoints can answer with
EventLists == {<<>>, <<"e1">>}
FrameLists == {<<>>, <<"f1">>}

VARIABLES
  \* board and resource selection (part_000 30-35, 45)
  boards, selectedBoardId, selectedCameraId, selectedModelId,
  cameras, models, loadingModels,
  \* job and streaming state (part_000 38-44)
  jobId, streamUrl, busy, isPaused, imageLoaded, streamError, countdown,
  \* events and data (part_000 48-53)
  events, profiling, savedFrames,
  \* interval timers (part_000 61-63): TRUE while the timer is armed
  eventsInterval, profilingInterval, savedFramesInterval,
  \* one-shot timers: the warm-up timers (the url each will assign) and the
  \* cleanup delay of onStart
  warmupTimers, settling,
  \* requests in flight
  boardsReq, catalogLoads, requests, eventsReqs, profilingReqs, savedFramesReqs,
  \* the tick number of the profiling poller within the current job
  profTick,
  \* the last alert() shown
  alertMsg,
  \* history: start requests sent so far, jobs the backend is running
  started, backendJobs,
  \* the backend client (api.ts): the operation called and what came of it
  apiCall, apiResult

catalogVars == <<boards, selectedBoardId, selectedCameraId, selectedModelId,
                 cameras, models, loadingModels, boardsReq, catalogLoads>>
jobVars == <<jobId, streamUrl, busy, isPaused, imageLoaded, streamError,
             countdown, warmupTimers, settling, requests, alertMsg, started,
             backendJobs>>
pollVars == <<events, profiling, savedFrames, eventsInterval,
              profilingInterval, savedFramesInterval, eventsReqs,
              profilingReqs, savedFramesReqs, profTick>>
apiVars == <<apiCall, apiResult>>
vars == <<catalogVars, jobVars, pollVars, apiVars>>

(* ------------------------------ helpers ------------------------------- *)
RemoveAt(s, i) == [k \in 1..(Len(s) - 1) |-> IF k < i THEN s[k] ELSE s[k + 1]]

Range(s) == {s[k] : k \in 1..Len(s)}

\* the backend's catalog: the cameras and models attached to each board
CamerasOf(b) == IF b = "b1" THEN <<"c1">> ELSE <<"c2">>

ModelsOf(b) == IF b = "b1" THEN <<"m1">> ELSE <<"m2">>

(* --------------------------- guard predicates ------------------------- *)
\* canStart as it would be without its busy test
canStart_NoBusyTest ==
  /\ selectedBoardId # NoBoard
  /\ selectedCameraId # NoSelection
  /\ selectedModelId # NoSelection
  /\ jobId = Null

canStart ==
  /\ selectedBoardId # NoBoard
  /\ selectedCameraId # NoSelection
  /\ selectedModelId # NoSelection
  /\ ~busy
  /\ jobId = Null

canStop == jobId # Null /\ ~busy

\* canPause as it would be without its busy test
canPause_NoBusyTest == jobId # Null

canPause == jobId # Null /\ ~busy

\* the render condition of the main <img> as it would be without its job test
ImgMounted_NoJobTest == ~isPaused /\ streamUrl # Null

\* the main <img> is rendered, so its onLoad / onError can be delivered
ImgMounted == jobId # Null /\ ~isPaused /\ streamUrl # Null

(* -------------------- effects keyed on [jobId] ------------------------ *)
\* Each effect is the cleanup of the previous run followed by the body run
\* with the new job id j.  p and f are the values the handler that changed
\* jobId leaves in profiling and savedFrames.
\* the events effect as it would be if its no-job branch left the timer armed
EventsEffect_KeepsTimer(j) ==
  IF j = Null
  THEN eventsInterval' = eventsInterval /\ eventsReqs' = eventsReqs
  ELSE eventsReqs' = eventsReqs + 1 /\ eventsInterval' = TRUE

EventsEffect(j) ==
  IF j = Null
  THEN eventsInterval' = FALSE /\ eventsReqs' = eventsReqs
  ELSE eventsReqs' = eventsReqs + 1 /\ eventsInterval' = TRUE

ProfilingEffect(j, p) ==
  IF j = Null
  THEN /\ profilingInterval' = FALSE
       /\ profiling' = NoProfiling
       /\ UNCHANGED <<profilingReqs, profTick>>
  ELSE /\ profilingReqs' = Append(profilingReqs, <<j, 1>>)
       /\ profTick' = 1
       /\ profilingInterval' = TRUE
       /\ profiling' = p

SavedFramesEffect(j, f) ==
  IF j = Null
  THEN /\ savedFramesInterval' = FALSE
       /\ savedFrames' = <<>>
       /\ savedFramesReqs' = savedFramesReqs
  ELSE /\ savedFramesReqs' = savedFramesReqs + 1
       /\ savedFramesInterval' = TRUE
       /\ savedFrames' = f

\* the three effects run only in a render in which jobId changed
JobIdEffects(j, p, f) ==
  IF j = jobId
  THEN /\ profiling' = p
       /\ savedFrames' = f
       /\ UNCHANGED <<eventsInterval, eventsReqs, profilingInterval,
                      profilingReqs, profTick, savedFramesInterval,
                      savedFramesReqs>>
  ELSE EventsEffect(j) /\ ProfilingEffect(j, p) /\ SavedFramesEffect(j, f)

(* ----------------------------- job controls --------------------------- *)
StartRequest ==
  [kind |-> "start", id |-> started + 1, board |-> selectedBoardId,
   camera |-> selectedCameraId, model |-> selectedModelId]

\* click on "Start Camera" (enabled iff canStart), up to the first await
OnStart ==
  /\ canStart
  /\ started < MaxJobs
  /\ busy' = TRUE
  /\ imageLoaded' = FALSE
  /\ streamError' = NoError
  /\ countdown' = WarmupCountdown
  /\ isPaused' = FALSE
  /\ IF jobId # Null
     THEN settling' = TRUE /\ UNCHANGED <<requests, started>>
     ELSE /\ requests' = Append(requests, StartRequest)
          /\ started' = started + 1
          /\ settling' = settling
  /\ UNCHANGED <<apiVars, catalogVars, pollVars, jobId, streamUrl, warmupTimers,
                 alertMsg, backendJobs>>

\* the cleanup delay of onStart elapses: the start request goes out
SettleFire ==
  /\ settling
  /\ settling' = FALSE
  /\ requests' = Append(requests, StartRequest)
  /\ started' = started + 1
  /\ UNCHANGED <<apiVars, catalogVars, pollVars, jobId, streamUrl, busy, isPaused,
                 imageLoaded, streamError, countdown, warmupTimers, alertMsg,
                 backendJobs>>

\* startJob resolved: try block and finally of onStart
OnStartOk(i) ==
  /\ requests[i].kind = "start"
  /\ requests' = RemoveAt(requests, i)
  /\ jobId' = requests[i].id
  /\ warmupTimers' = Append(warmupTimers, requests[i].id)
  /\ busy' = FALSE
  /\ backendJobs' = backendJobs \cup {requests[i].id}
  /\ JobIdEffects(requests[i].id, profiling, savedFrames)
  /\ events' = events
  /\ UNCHANGED <<apiVars, catalogVars, streamUrl, isPaused, imageLoaded, streamError,
                 countdown, settling, alertMsg, started>>

\* the catch block of onStart as it would be without setStreamUrl("")
OnStartFail_KeepsStream(i) ==
  /\ requests[i].kind = "start"
  /\ requests' = RemoveAt(requests, i)
  /\ streamError' = FailedToStart
  /\ alertMsg' = "Start failed"
  /\ jobId' = Null
  /\ busy' = FALSE
  /\ JobIdEffects(Null, profiling, savedFrames)
  /\ events' = events
  /\ UNCHANGED <<apiVars, catalogVars, streamUrl, isPaused, imageLoaded,
                 countdown, warmupTimers, settling, started, backendJobs>>

\* startJob rejected: catch block and finally of onStart
OnStartFail(i) ==
  /\ requests[i].kind = "start"
  /\ requests' = RemoveAt(requests, i)
  /\ streamError' = FailedToStart
  /\ alertMsg' = "Start failed"
  /\ jobId' = Null
  /\ streamUrl' = Null
  /\ busy' = FALSE
  /\ JobIdEffects(Null, profiling, savedFrames)
  /\ events' = events
  /\ UNCHANGED <<apiVars, catalogVars, isPaused, imageLoaded, countdown, warmupTimers,
                 settling, started, backendJobs>>

\* click on "Stop Camera" (enabled iff canStop), up to the await
OnStop ==
  /\ canStop
  /\ jobId # Null /\ ~busy
  /\ busy' = TRUE
  /\ requests' = Append(requests,
       [kind |-> "stop", id |-> jobId, board |-> NoBoard,
        camera |-> NoSelection, model |-> NoSelection])
  /\ UNCHANGED <<apiVars, catalogVars, pollVars, jobId, streamUrl, isPaused,
                 imageLoaded, streamError, countdown, warmupTimers, settling,
                 alertMsg, started, backendJobs>>

\* stopJob resolved: try block and finally of onStop
OnStopOk(i) ==
  /\ requests[i].kind = "stop"
  /\ requests' = RemoveAt(requests, i)
  /\ jobId' = Null
  /\ streamUrl' = Null
  /\ imageLoaded' = FALSE
  /\ streamError' = NoError
  /\ countdown' = 0
  /\ isPaused' = FALSE
  /\ events' = <<>>
  /\ busy' = FALSE
  /\ backendJobs' = {}
  /\ JobIdEffects(Null, NoProfiling, <<>>)
  /\ UNCHANGED <<apiVars, catalogVars, warmupTimers, settling, alertMsg, started>>

\* the catch block of onStop as it would be if it reset the stream address
\* the way the catch block of onStart does
OnStopFail_ResetsStream(i) ==
  /\ requests[i].kind = "stop"
  /\ requests' = RemoveAt(requests, i)
  /\ alertMsg' = "Stop failed"
  /\ streamUrl' = Null
  /\ busy' = FALSE
  /\ UNCHANGED <<apiVars, catalogVars, pollVars, jobId, isPaused, imageLoaded,
                 streamError, countdown, warmupTimers, settling, started,
                 backendJobs>>

\* the catch block of onStop as it would be if it dropped the job id
OnStopFail_ClearsJob(i) ==
  /\ requests[i].kind = "stop"
  /\ requests' = RemoveAt(requests, i)
  /\ alertMsg' = "Stop failed"
  /\ busy' = FALSE
  /\ jobId' = Null
  /\ JobIdEffects(Null, profiling, savedFrames)
  /\ events' = events
  /\ UNCHANGED <<apiVars, catalogVars, streamUrl, isPaused, imageLoaded,
                 streamError, countdown, warmupTimers, settling, started,
                 backendJobs>>

\* stopJob rejected: catch block and finally of onStop
OnStopFail(i) ==
  /\ requests[i].kind = "stop"
  /\ requests' = RemoveAt(requests, i)
  /\ alertMsg' = "Stop failed"
  /\ busy' = FALSE
  /\ UNCHANGED <<apiVars, catalogVars, pollVars, jobId, streamUrl, isPaused,
                 imageLoaded, streamError, countdown, warmupTimers, settling,
                 started, backendJobs>>

\* onPause as it would be if it always called pauseVideo
OnPause_AlwaysPause ==
  /\ canPause
  /\ jobId # Null /\ selectedBoardId # NoBoard
  /\ busy' = TRUE
  /\ requests' = Append(requests,
       [kind |-> "pause", id |-> jobId, board |-> selectedBoardId,
        camera |-> NoSelection, model |-> NoSelection])
  /\ UNCHANGED <<apiVars, catalogVars, pollVars, jobId, streamUrl, isPaused,
                 imageLoaded, streamError, countdown, warmupTimers, settling,
                 alertMsg, started, backendJobs>>

\* click on "Pause/Resume Detection" (enabled iff canPause), up to the await
OnPause ==
  /\ canPause
  /\ jobId # Null /\ selectedBoardId # NoBoard
  /\ busy' = TRUE
  /\ requests' = Append(requests,
       [kind |-> IF isPaused THEN "resume" ELSE "pause", id |-> jobId,
        board |-> selectedBoardId, camera |-> NoSelection,
        model |-> NoSelection])
  /\ UNCHANGED <<apiVars, catalogVars, pollVars, jobId, streamUrl, isPaused,
                 imageLoaded, streamError, countdown, warmupTimers, settling,
                 alertMsg, started, backendJobs>>

\* pauseVideo / resumeVideo resolved
OnPauseOk(i) ==
  /\ requests[i].kind \in {"pause", "resume"}
  /\ requests' = RemoveAt(requests, i)
  /\ isPaused' = (requests[i].kind = "pause")
  /\ busy' = FALSE
  /\ UNCHANGED <<apiVars, catalogVars, pollVars, jobId, streamUrl, imageLoaded,
                 streamError, countdown, warmupTimers, settling, alertMsg,
                 started, backendJobs>>

\* onPause's failure path as it would be without its finally block
OnPauseFail_KeepsBusy(i) ==
  /\ requests[i].kind \in {"pause", "resume"}
  /\ requests' = RemoveAt(requests, i)
  /\ alertMsg' = "Pause/resume failed"
  /\ UNCHANGED <<apiVars, catalogVars, pollVars, jobId, streamUrl, busy,
                 isPaused, imageLoaded, streamError, countdown, warmupTimers,
                 settling, started, backendJobs>>

\* pauseVideo / resumeVideo rejected
OnPauseFail(i) ==
  /\ requests[i].kind \in {"pause", "resume"}
  /\ requests' = RemoveAt(requests, i)
  /\ alertMsg' = "Pause/resume failed"
  /\ busy' = FALSE
  /\ UNCHANGED <<apiVars, catalogVars, pollVars, jobId, streamUrl, isPaused,
                 imageLoaded, streamError, countdown, warmupTimers, settling,
                 started, backendJobs>>

(* -------------------------------- pollers ----------------------------- *)
\* the 3000 ms interval fires: loadEvents up to its await
EventsTick ==
  /\ eventsInterval
  /\ eventsReqs <= MaxInFlight
  /\ eventsReqs' = eventsReqs + 1
  /\ UNCHANGED <<apiVars, catalogVars, jobVars, events, profiling, savedFrames,
                 eventsInterval, profilingInterval, savedFramesInterval,
                 profilingReqs, savedFramesReqs, profTick>>

\* getRecentEvents resolved with list ev
LoadEventsOk(ev) ==
  /\ eventsReqs > 0
  /\ eventsReqs' = eventsReqs - 1
  /\ events' = ev
  /\ UNCHANGED <<apiVars, catalogVars, jobVars, profiling, savedFrames,
                 eventsInterval, profilingInterval, savedFramesInterval,
                 profilingReqs, savedFramesReqs, profTick>>

\* loadEvents' catch block as it would be if it cleared the events timer
LoadEventsFail_StopsTimer ==
  /\ eventsReqs > 0
  /\ eventsReqs' = eventsReqs - 1
  /\ eventsInterval' = FALSE
  /\ UNCHANGED <<apiVars, catalogVars, jobVars, events, profiling,
                 savedFrames, profilingInterval, savedFramesInterval,
                 profilingReqs, savedFramesReqs, profTick>>

\* getRecentEvents rejected: logged
LoadEventsFail ==
  /\ eventsReqs > 0
  /\ eventsReqs' = eventsReqs - 1
  /\ UNCHANGED <<apiVars, catalogVars, jobVars, events, profiling, savedFrames,
                 eventsInterval, profilingInterval, savedFramesInterval,
                 profilingReqs, savedFramesReqs, profTick>>

\* the 500 ms interval fires: loadProfiling up to its await.  The callback
\* closes over the jobId of the render that armed the interval.
ProfilingTick ==
  /\ profilingInterval
  /\ profTick < MaxTicks
  /\ Len(profilingReqs) <= MaxInFlight
  /\ jobId # Null
  /\ profilingReqs' = Append(profilingReqs, <<jobId, profTick + 1>>)
  /\ profTick' = profTick + 1
  /\ UNCHANGED <<apiVars, catalogVars, jobVars, events, profiling, savedFrames,
                 eventsInterval, profilingInterval, savedFramesInterval,
                 eventsReqs, savedFramesReqs>>

\* loadProfiling as it would be with a generation check: an answer older
\* than the snapshot on display is dropped
LoadProfilingOk_DropsStale(i) ==
  /\ i \in 1..Len(profilingReqs)
  /\ profilingReqs' = RemoveAt(profilingReqs, i)
  /\ profiling' = IF /\ profiling # NoProfiling
                     /\ profiling[1] = profilingReqs[i][1]
                     /\ profiling[2] > profilingReqs[i][2]
                  THEN profiling ELSE profilingReqs[i]
  /\ UNCHANGED <<apiVars, catalogVars, jobVars, events, savedFrames,
                 eventsInterval, profilingInterval, savedFramesInterval,
                 eventsReqs, savedFramesReqs, profTick>>

\* getProfiling resolved: the snapshot answering request i
LoadProfilingOk(i) ==
  /\ i \in 1..Len(profilingReqs)
  /\ profilingReqs' = RemoveAt(profilingReqs, i)
  /\ profiling' = IF profilingReqs[i] # NoProfiling
                  THEN profilingReqs[i] ELSE profiling
  /\ UNCHANGED <<apiVars, catalogVars, jobVars, events, savedFrames,
                 eventsInterval, profilingInterval, savedFramesInterval,
                 eventsReqs, savedFramesReqs, profTick>>

\* the catch block of loadProfiling as it would be if it dropped the snapshot
LoadProfilingFail_Clears(i) ==
  /\ i \in 1..Len(profilingReqs)
  /\ profilingReqs' = RemoveAt(profilingReqs, i)
  /\ profiling' = NoProfiling
  /\ UNCHANGED <<apiVars, catalogVars, jobVars, events, savedFrames,
                 eventsInterval, profilingInterval, savedFramesInterval,
                 eventsReqs, savedFramesReqs, profTick>>

\* getProfiling rejected: logged
LoadProfilingFail(i) ==
  /\ i \in 1..Len(profilingReqs)
  /\ profilingReqs' = RemoveAt(profilingReqs, i)
  /\ UNCHANGED <<apiVars, catalogVars, jobVars, events, profiling, savedFrames,
                 eventsInterval, profilingInterval, savedFramesInterval,
                 eventsReqs, savedFramesReqs, profTick>>

\* the 5000 ms interval fires: loadSavedFrames up to its await
SavedFramesTick ==
  /\ savedFramesInterval
  /\ savedFramesReqs <= MaxInFlight
  /\ savedFramesReqs' = savedFramesReqs + 1
  /\ UNCHANGED <<apiVars, catalogVars, jobVars, events, profiling, savedFrames,
                 eventsInterval, profilingInterval, savedFramesInterval,
                 eventsReqs, profilingReqs, profTick>>

\* fetch of /saved_frames resolved with response.ok and list fr
LoadSavedFramesOk(fr) ==
  /\ savedFramesReqs > 0
  /\ savedFramesReqs' = savedFramesReqs - 1
  /\ savedFrames' = fr
  /\ UNCHANGED <<apiVars, catalogVars, jobVars, events, profiling,
                 eventsInterval, profilingInterval, savedFramesInterval,
                 eventsReqs, profilingReqs, profTick>>

\* fetch of /saved_frames rejected, or resolved with a non-ok response
LoadSavedFramesFail ==
  /\ savedFramesReqs > 0
  /\ savedFramesReqs' = savedFramesReqs - 1
  /\ UNCHANGED <<apiVars, catalogVars, jobVars, events, profiling, savedFrames,
                 eventsInterval, profilingInterval, savedFramesInterval,
                 eventsReqs, profilingReqs, profTick>>

(* ---------------------------- stream monitor -------------------------- *)
\* the oldest 8000 ms timer set by onStart fires: setStreamUrl(res.stream_url)
WarmupFire ==
  /\ warmupTimers # <<>>
  /\ streamUrl' = Head(warmupTimers)
  /\ warmupTimers' = Tail(warmupTimers)
  /\ UNCHANGED <<apiVars, catalogVars, pollVars, jobId, busy, isPaused, imageLoaded,
                 streamError, countdown, settling, requests, alertMsg,
                 started, backendJobs>>

\* the 1000 ms interval of the countdown effect fires
CountdownTick ==
  /\ countdown > 0
  /\ countdown' = IF countdown - 1 > 0 THEN countdown - 1 ELSE 0
  /\ UNCHANGED <<apiVars, catalogVars, pollVars, jobId, streamUrl, busy, isPaused,
                 imageLoaded, streamError, warmupTimers, settling, requests,
                 alertMsg, started, backendJobs>>

\* onLoad of the main <img>
handleImageLoad ==
  /\ ImgMounted
  /\ imageLoaded' = TRUE
  /\ streamError' = NoError
  /\ UNCHANGED <<apiVars, catalogVars, pollVars, jobId, streamUrl, busy, isPaused,
                 countdown, warmupTimers, settling, requests, alertMsg,
                 started, backendJobs>>

\* handleImageError as it would be without its countdown test
handleImageError_NoCountdownTest ==
  /\ ImgMounted
  /\ imageLoaded' = FALSE
  /\ streamError' = IF streamUrl # Null /\ jobId # Null
                    THEN Retrying ELSE streamError
  /\ UNCHANGED <<apiVars, catalogVars, pollVars, jobId, streamUrl, busy, isPaused,
                 countdown, warmupTimers, settling, requests, alertMsg,
                 started, backendJobs>>

\* onError of the main <img>
handleImageError ==
  /\ ImgMounted
  /\ imageLoaded' = FALSE
  /\ streamError' = IF countdown = 0 /\ streamUrl # Null /\ jobId # Null
                    THEN Retrying ELSE streamError
  /\ UNCHANGED <<apiVars, catalogVars, pollVars, jobId, streamUrl, busy, isPaused,
                 countdown, warmupTimers, settling, requests, alertMsg,
                 started, backendJobs>>

(* --------------------------- resource catalog ------------------------- *)
\* getBoards of the mount effect resolved
GetBoardsOk ==
  /\ boardsReq
  /\ boardsReq' = FALSE
  /\ boards' = AllBoards
  /\ UNCHANGED <<apiVars, selectedBoardId, selectedCameraId, selectedModelId, cameras,
                 models, loadingModels, catalogLoads, jobVars, pollVars>>

\* getBoards rejected: logged
GetBoardsFail ==
  /\ boardsReq
  /\ boardsReq' = FALSE
  /\ UNCHANGED <<apiVars, boards, selectedBoardId, selectedCameraId, selectedModelId,
                 cameras, models, loadingModels, catalogLoads, jobVars,
                 pollVars>>

\* the effect keyed on [selectedBoardId], run with the new board b
BoardEffect(b) ==
  IF b = NoBoard
  THEN /\ cameras' = <<>>
       /\ models' = <<>>
       /\ UNCHANGED <<loadingModels, catalogLoads>>
  ELSE /\ loadingModels' = TRUE
       /\ catalogLoads' = Append(catalogLoads,
            [board |-> b, cam |-> "pending", mod |-> "pending"])
       /\ UNCHANGED <<cameras, models>>

\* the board <select>'s disabled test as it would be without its job test
BoardSelectDisabled_NoJobTest == busy

BoardSelectDisabled == jobId # Null \/ busy

ModelSelectDisabled ==
  jobId # Null \/ busy \/ selectedBoardId = NoBoard \/ loadingModels

CameraSelectDisabled == jobId # Null \/ busy \/ selectedBoardId = NoBoard

\* onChange of the board <select>: another option b is chosen
SelectBoard(b) ==
  /\ ~BoardSelectDisabled
  /\ b \in {NoBoard} \cup Range(boards)
  /\ b # selectedBoardId
  /\ b # NoBoard => Len(catalogLoads) < MaxLoads
  /\ selectedBoardId' = b
  /\ selectedCameraId' = NoSelection
  /\ selectedModelId' = NoSelection
  /\ BoardEffect(b)
  /\ UNCHANGED <<apiVars, boards, boardsReq, jobVars, pollVars>>

\* onChange of the model <select>
SelectModel(m) ==
  /\ ~ModelSelectDisabled
  /\ m \in {NoSelection} \cup Range(models)
  /\ m # selectedModelId
  /\ selectedModelId' = m
  /\ UNCHANGED <<apiVars, boards, selectedBoardId, selectedCameraId, cameras, models,
                 loadingModels, boardsReq, catalogLoads, jobVars, pollVars>>

\* onChange of the camera <select>
SelectCamera(c) ==
  /\ ~CameraSelectDisabled
  /\ c \in {NoSelection} \cup Range(cameras)
  /\ c # selectedCameraId
  /\ selectedCameraId' = c
  /\ UNCHANGED <<apiVars, boards, selectedBoardId, selectedModelId, cameras, models,
                 loadingModels, boardsReq, catalogLoads, jobVars, pollVars>>

OtherFetch(which) == IF which = "cam" THEN "mod" ELSE "cam"

\* getCameras (which = "cam") or getModels (which = "mod") of load i
\* resolved; Promise.all resolves once both have, and then the try block
\* and finally run
CatalogFetchOk(i, which) ==
  /\ i \in 1..Len(catalogLoads)
  /\ catalogLoads[i][which] = "pending"
  /\ CASE catalogLoads[i][OtherFetch(which)] = "ok" ->
            /\ cameras' = CamerasOf(catalogLoads[i].board)
            /\ models' = ModelsOf(catalogLoads[i].board)
            /\ loadingModels' = FALSE
            /\ catalogLoads' = RemoveAt(catalogLoads, i)
       [] catalogLoads[i][OtherFetch(which)] = "pending" ->
            /\ catalogLoads' = [catalogLoads EXCEPT ![i][which] = "ok"]
            /\ UNCHANGED <<cameras, models, loadingModels>>
       [] OTHER ->
            /\ catalogLoads' = RemoveAt(catalogLoads, i)
            /\ UNCHANGED <<cameras, models, loadingModels>>
  /\ UNCHANGED <<apiVars, boards, selectedBoardId, selectedCameraId, selectedModelId,
                 boardsReq, jobVars, pollVars>>

\* the load's catch block as it would be if it emptied the lists
CatalogFetchFail_ClearsLists(i, which) ==
  /\ i \in 1..Len(catalogLoads)
  /\ catalogLoads[i][which] = "pending"
  /\ CASE catalogLoads[i][OtherFetch(which)] = "ok" ->
            /\ loadingModels' = FALSE
            /\ cameras' = <<>> /\ models' = <<>>
            /\ catalogLoads' = RemoveAt(catalogLoads, i)
       [] catalogLoads[i][OtherFetch(which)] = "pending" ->
            /\ loadingModels' = FALSE
            /\ cameras' = <<>> /\ models' = <<>>
            /\ catalogLoads' = [catalogLoads EXCEPT ![i][which] = "fail"]
       [] OTHER ->
            /\ loadingModels' = loadingModels
            /\ UNCHANGED <<cameras, models>>
            /\ catalogLoads' = RemoveAt(catalogLoads, i)
  /\ UNCHANGED <<apiVars, boards, selectedBoardId, selectedCameraId,
                 selectedModelId, boardsReq, jobVars, pollVars>>

\* getCameras or getModels of load i rejected; Promise.all rejects at the
\* first rejection, and then the catch block and finally run
CatalogFetchFail(i, which) ==
  /\ i \in 1..Len(catalogLoads)
  /\ catalogLoads[i][which] = "pending"
  /\ CASE catalogLoads[i][OtherFetch(which)] = "ok" ->
            /\ loadingModels' = FALSE
            /\ catalogLoads' = RemoveAt(catalogLoads, i)
       [] catalogLoads[i][OtherFetch(which)] = "pending" ->
            /\ loadingModels' = FALSE
            /\ catalogLoads' = [catalogLoads EXCEPT ![i][which] = "fail"]
       [] OTHER ->
            /\ loadingModels' = loadingModels
            /\ catalogLoads' = RemoveAt(catalogLoads, i)
  /\ UNCHANGED <<apiVars, boards, selectedBoardId, selectedCameraId, selectedModelId,
                 cameras, models, boardsReq, jobVars, pollVars>>

(* ----------------------- backend client (api.ts) ----------------------- *)
\* the operations api.ts exports
ApiOps ==
  {"getBoards", "getCameras", "getModels", "startJob", "stopJob",
   "pauseVideo", "resumeVideo", "getRecentEvents", "getEventById",
   "getProfiling", "getHealth"}

\* the message field of a JSON error body: absent, empty, or a text
NoMessage == "<absent>"
Messages == {NoMessage, "", "board offline"}

\* r.statusText
StatusTexts == {"Not Found", "Internal Server Error"}

\* a response: r.ok, the message field of its JSON body, r.statusText
Responses == [ok : BOOLEAN, message : Messages, statusText : StatusTexts]

NoCall == "none"
NoResult == [answered |-> FALSE]

\* errorBody.message || r.statusText : a missing or empty message is falsy
Detail(r) ==
  IF r.message \in {NoMessage, ""} THEN r.statusText ELSE r.message

\* the message of the Error an operation throws on a non-2xx response, as the
\* sequence of the parts it is concatenated from
ErrorMessage(op, r) ==
  CASE op = "getBoards" -> <<"Failed to fetch boards">>
    [] op = "getCameras" -> <<"Failed to fetch cameras">>
    [] op = "getModels" -> <<"Failed to fetch models">>
    [] op = "startJob" -> <<"Failed to start job: ", Detail(r)>>
    [] op = "stopJob" -> <<"Failed to stop job: ", Detail(r)>>
    [] op = "pauseVideo" -> <<"Failed to pause video: ", Detail(r)>>
    [] op = "resumeVideo" -> <<"Failed to resume video: ", Detail(r)>>
    [] op = "getRecentEvents" -> <<"Failed to fetch events">>
    [] op = "getEventById" -> <<"Failed to fetch event">>
    [] op = "getProfiling" -> <<"Failed to fetch profiling data">>
    [] op = "getHealth" -> <<"Health check failed">>

\* what the call does with response r: return its body, or throw
Outcome(op, r) ==
  IF r.ok
    THEN [threw |-> FALSE, message |-> <<>>]
    ELSE [threw |-> TRUE, message |-> ErrorMessage(op, r)]

\* an operation is called and its request is sent
ApiCallOp(op) ==
  /\ apiCall = NoCall
  /\ apiCall' = op
  /\ apiResult' = NoResult
  /\ UNCHANGED <<catalogVars, jobVars, pollVars>>

\* the response arrives and the call returns or throws
ApiRespond(r) ==
  /\ apiCall # NoCall
  /\ ~apiResult.answered
  /\ apiResult' = [answered |-> TRUE, response |-> r,
                   outcome |-> Outcome(apiCall, r)]
  /\ UNCHANGED <<catalogVars, jobVars, pollVars, apiCall>>

\* the caller has consumed the outcome
ApiReturn ==
  /\ apiCall # NoCall
  /\ apiResult.answered
  /\ apiCall' = NoCall
  /\ apiResult' = NoResult
  /\ UNCHANGED <<catalogVars, jobVars, pollVars>>

(* --------------------------- lifecycle phase -------------------------- *)
\* the phase of the job lifecycle, read off the job id and the start or stop
\* request in flight
Phase ==
  IF jobId = Null
    THEN IF \E i \in DOMAIN requests : requests[i].kind = "start"
           THEN "Starting" ELSE "Idle"
    ELSE IF \E i \in DOMAIN requests : requests[i].kind = "stop"
           THEN "Stopping" ELSE "Running"

(* ---------------------------- specification --------------------------- *)
\* the state after the first render and its mount effects
Init ==
  /\ boards = <<>>
  /\ selectedBoardId = NoBoard
  /\ selectedCameraId = NoSelection
  /\ selectedModelId = NoSelection
  /\ cameras = <<>>
  /\ models = <<>>
  /\ loadingModels = FALSE
  /\ jobId = Null
  /\ streamUrl = Null
  /\ busy = FALSE
  /\ isPaused = FALSE
  /\ imageLoaded = FALSE
  /\ streamError = NoError
  /\ countdown = 0
  /\ events = <<>>
  /\ profiling = NoProfiling
  /\ savedFrames = <<>>
  /\ eventsInterval = FALSE
  /\ profilingInterval = FALSE
  /\ savedFramesInterval = FALSE
  /\ warmupTimers = <<>>
  /\ settling = FALSE
  /\ boardsReq = TRUE
  /\ catalogLoads = <<>>
  /\ requests = <<>>
  /\ eventsReqs = 0
  /\ profilingReqs = <<>>
  /\ savedFramesReqs = 0
  /\ profTick = 0
  /\ alertMsg = NoAlert
  /\ started = 0
  /\ backendJobs = {}
  /\ apiCall = NoCall
  /\ apiResult = NoResult

CatalogNext ==
  \/ GetBoardsOk
  \/ GetBoardsFail
  \/ \E b \in {NoBoard} \cup Range(AllBoards) : SelectBoard(b)
  \/ \E m \in {NoSelection, "m1", "m2"} : SelectModel(m)
  \/ \E c \in {NoSelection, "c1", "c2"} : SelectCamera(c)
  \/ \E i \in 1..MaxLoads, which \in {"cam", "mod"} : CatalogFetchOk(i, which)
  \/ \E i \in 1..MaxLoads, which \in {"cam", "mod"} : CatalogFetchFail(i, which)

StartStopNext ==
  \/ OnStart
  \/ \E i \in 1..Len(requests) : OnStartOk(i)
  \/ \E i \in 1..Len(requests) : OnStartFail(i)
  \/ OnStop
  \/ \E i \in 1..Len(requests) : OnStopOk(i)
  \/ \E i \in 1..Len(requests) : OnStopFail(i)

PauseNext ==
  \/ OnPause
  \/ \E i \in 1..Len(requests) : OnPauseOk(i)
  \/ \E i \in 1..Len(requests) : OnPauseFail(i)

PollNext ==
  \/ EventsTick
  \/ \E ev \in EventLists : LoadEventsOk(ev)
  \/ LoadEventsFail
  \/ ProfilingTick
  \/ \E i \in 1..Len(profilingReqs) : LoadProfilingOk(i)
  \/ \E i \in 1..Len(profilingReqs) : LoadProfilingFail(i)
  \/ SavedFramesTick
  \/ \E fr \in FrameLists : LoadSavedFramesOk(fr)
  \/ LoadSavedFramesFail

StreamNext ==
  \/ WarmupFire
  \/ CountdownTick
  \/ handleImageLoad
  \/ handleImageError

\* a state the catalog reaches (see SelectedReachable): the boards are
\* loaded, board b1 with its camera and model is selected, no load is
\* outstanding, and nothing has been started yet
InitSelected ==
  /\ boards = AllBoards
  /\ selectedBoardId = "b1"
  /\ selectedCameraId = "c1"
  /\ selectedModelId = "m1"
  /\ cameras = CamerasOf("b1")
  /\ models = ModelsOf("b1")
  /\ loadingModels = FALSE
  /\ jobId = Null
  /\ streamUrl = Null
  /\ busy = FALSE
  /\ isPaused = FALSE
  /\ imageLoaded = FALSE
  /\ streamError = NoError
  /\ countdown = 0
  /\ events = <<>>
  /\ profiling = NoProfiling
  /\ savedFrames = <<>>
  /\ eventsInterval = FALSE
  /\ profilingInterval = FALSE
  /\ savedFramesInterval = FALSE
  /\ warmupTimers = <<>>
  /\ settling = FALSE
  /\ boardsReq = FALSE
  /\ catalogLoads = <<>>
  /\ requests = <<>>
  /\ eventsReqs = 0
  /\ profilingReqs = <<>>
  /\ savedFramesReqs = 0
  /\ profTick = 0
  /\ alertMsg = NoAlert
  /\ started = 0
  /\ backendJobs = {}
  /\ apiCall = NoCall
  /\ apiResult = NoResult

\* the catalog actions without the rejections
CatalogOkNext ==
  \/ GetBoardsOk
  \/ \E b \in {NoBoard} \cup Range(AllBoards) : SelectBoard(b)
  \/ \E m \in {NoSelection, "m1", "m2"} : SelectModel(m)
  \/ \E c \in {NoSelection, "c1", "c2"} : SelectCamera(c)
  \/ \E i \in 1..MaxLoads, which \in {"cam", "mod"} : CatalogFetchOk(i, which)

JobNext == StartStopNext \/ PauseNext

ApiNext ==
  \/ \E op \in ApiOps : ApiCallOp(op)
  \/ \E r \in Responses : ApiRespond(r)
  \/ ApiReturn

Next == CatalogNext \/ JobNext \/ PollNext \/ StreamNext \/ ApiNext

\* catalog and start/stop, from construction
NextCatalog == CatalogNext \/ StartStopNext

\* start/stop and the three pollers
NextPoll == StartStopNext \/ PollNext

\* job controls, stream monitor and the answers to the polls
NextJob ==
  \/ JobNext
  \/ StreamNext
  \/ \E ev \in EventLists : LoadEventsOk(ev)
  \/ \E i \in 1..Len(profilingReqs) : LoadProfilingOk(i)
  \/ \E fr \in FrameLists : LoadSavedFramesOk(fr)

\* the whole component
Spec == Init /\ [][Next]_vars

\* The state space of Spec is the product of the catalog, the job controls,
\* the stream monitor and the three pollers.  The properties below are
\* checked under the three specifications that follow, each of which keeps
\* every action that writes the variables its properties read.
SpecCatalog == Init /\ [][NextCatalog]_vars

SpecPoll == InitSelected /\ [][NextPoll]_vars

SpecJob == InitSelected /\ [][NextJob]_vars
\* catalog and all job controls, from construction
SpecControls == Init /\ [][CatalogNext \/ JobNext]_vars
\* the catalog with every fetch answered successfully
SpecLoadsOk == Init /\ [][CatalogOkNext]_vars
\* the backend client on its own
SpecApi == Init /\ [][ApiNext]_vars

\* InitSelected is a state of the component: SpecCatalog reaches it
\* (~SelectedReachable is violated under SpecCatalog)
SelectedReachable == InitSelected

(* ------------------------------ properties ---------------------------- *)
\* C1: at most one job is active at a time: the backend never runs two
\* jobs of this session, and a start request is sent only from a state with
\* no job id and the controller not busy.
C1_OneJobAtATime ==
  /\ [](Cardinality(backendJobs) <= 1)
  /\ [][started' # started => jobId = Null /\ ~busy]_vars

\* a job is running, nothing but the job keeps the start button disabled,
\* and a further start would still be within the bound
C1_Witness ==
  /\ jobId # Null
  /\ ~busy
  /\ backendJobs = {jobId}
  /\ selectedBoardId # NoBoard
  /\ selectedCameraId # NoSelection
  /\ selectedModelId # NoSelection
  /\ started < MaxJobs

\* C2: while no job is active the events list is empty, the profiling
\* snapshot is null and the saved-frames list is empty, also after the
\* answers to polls that were in flight when the stop succeeded have arrived.
\* (Before the first job the three slices are empty in any case, so the
\* invariant says something only after a stop.)
C2_StoppedSlicesEmpty ==
  jobId = Null =>
    /\ events = <<>>
    /\ profiling = NoProfiling
    /\ savedFrames = <<>>

\* C3: the three pollers run if and only if a job is active: each interval
\* timer is armed exactly while a job id is present, and a poll request is
\* issued only by a step that ends with a job id present.
C3_PollersIffJob ==
  /\ []((jobId # Null) = eventsInterval)
  /\ []((jobId # Null) = profilingInterval)
  /\ []((jobId # Null) = savedFramesInterval)
  /\ [][(\/ eventsReqs' > eventsReqs
         \/ Len(profilingReqs') > Len(profilingReqs)
         \/ savedFramesReqs' > savedFramesReqs) => jobId' # Null]_vars

\* a job has run and has been stopped: no timer is armed, while answers to
\* its polls are still outstanding
C3_Witness ==
  /\ jobId = Null
  /\ started >= 1
  /\ backendJobs = {}
  /\ alertMsg = NoAlert
  /\ requests = <<>>
  /\ ~eventsInterval /\ ~profilingInterval /\ ~savedFramesInterval
  /\ eventsReqs > 0 /\ profilingReqs # <<>> /\ savedFramesReqs > 0

\* C4: a failed stop request preserves the job state: job id, stream
\* address, events, profiling, saved frames, paused and stream-loaded flags
\* and the three interval timers keep their values, and busy becomes false.
C4_StopFailurePreserves ==
  [][(\E i \in 1..Len(requests) : OnStopFail(i)) =>
       /\ UNCHANGED <<jobId, streamUrl, events, profiling, savedFrames,
                      isPaused, imageLoaded, eventsInterval,
                      profilingInterval, savedFramesInterval>>
       /\ busy' = FALSE]_vars

\* a stop has failed and the job is still there with every slice filled
C4_Witness ==
  /\ alertMsg = "Stop failed"
  /\ jobId # Null
  /\ ~busy
  /\ streamUrl # Null
  /\ imageLoaded
  /\ events # <<>>
  /\ profiling # NoProfiling
  /\ savedFrames # <<>>
  /\ eventsInterval /\ profilingInterval /\ savedFramesInterval

\* C5: while a job is active its stream address is unassigned until the
\* warm-up timer created by its own start has fired, and the address then
\* assigned is the stream_url returned for that job.
C5_AddressOnlyFromOwnWarmup ==
  jobId # Null =>
    /\ streamUrl \in {Null, jobId}
    /\ (\E k \in 1..Len(warmupTimers) : warmupTimers[k] = jobId)
         => streamUrl = Null

\* C6: the stream address is empty in every state in which no job is
\* active (a warm-up timer of a stopped job assigns nothing).
C6_NoAddressWithoutJob == jobId = Null => streamUrl = Null

\* C7: a failed profiling round leaves the snapshot unchanged, and a
\* successful round replaces it with the snapshot it fetched.
C7_ProfilingFailureKeepsSnapshot ==
  [][\A i \in 1..Len(profilingReqs) :
       /\ LoadProfilingFail(i) => profiling' = profiling
       /\ LoadProfilingOk(i) => profiling' = profilingReqs[i]]_vars

\* both rounds of the running job are over and the snapshot shown is the
\* one of its first round
C7_Witness ==
  /\ jobId # Null
  /\ profTick = 2
  /\ profilingReqs = <<>>
  /\ profiling = <<jobId, 1>>

\* C8: the retrying message is never shown while the countdown is above 0,
\* and a render failure arriving with the countdown at 0, a stream address
\* assigned and a job active sets it.
C8_RenderFailureAfterWarmup ==
  /\ [](countdown > 0 => streamError # Retrying)
  /\ [][handleImageError /\ countdown = 0 /\ streamUrl # Null /\ jobId # Null
          => streamError' = Retrying]_vars

\* the retrying message is shown for a running job after its warm-up
C8_Witness ==
  /\ streamError = Retrying
  /\ countdown = 0
  /\ jobId # Null
  /\ streamUrl # Null
  /\ ~imageLoaded

\* C9: a change of the selected board clears the selected camera, the
\* selected model, the camera list and the model list in the same step.
C9_BoardChangeClears ==
  [][selectedBoardId' # selectedBoardId =>
       /\ selectedCameraId' = NoSelection
       /\ selectedModelId' = NoSelection
       /\ cameras' = <<>>
       /\ models' = <<>>]_vars

\* C10: while a camera or model fetch issued for the selected board is
\* outstanding, the camera selector and the model selector are disabled.
C10_SelectorsLockedWhileLoading ==
  (\E i \in 1..Len(catalogLoads) :
     /\ catalogLoads[i].board = selectedBoardId
     /\ "pending" \in {catalogLoads[i].cam, catalogLoads[i].mod})
  => CameraSelectDisabled /\ ModelSelectDisabled

\* C11: the stream-loaded flag is never true in a state where no job is
\* active.
C11_LoadedOnlyWithJob == jobId = Null => ~imageLoaded

\* a job has run and has been stopped, its warm-up timer has fired since
\* and left a stream address behind, and the flag is false
C11_Witness ==
  /\ jobId = Null
  /\ started >= 1
  /\ backendJobs = {}
  /\ alertMsg = NoAlert
  /\ requests = <<>>
  /\ streamUrl # Null
  /\ ~imageLoaded

\* C12: busy is set only while a lifecycle request is outstanding, and the
\* completion of that request, successful or not, clears it.
C12_BusyClearedOnCompletion ==
  /\ [](busy => requests # <<>>)
  /\ [][Len(requests') < Len(requests) => ~busy']_vars

\* a pause request has failed and busy is clear again
C12_Witness ==
  /\ alertMsg = "Pause/resume failed"
  /\ requests = <<>>
  /\ ~busy
  /\ jobId # Null

\* C13: whenever no board is selected the camera list and the model list are
\* both empty, also after a fetch issued for the board selected before has
\* completed.
C13_NoBoardNoLists ==
  selectedBoardId = NoBoard => cameras = <<>> /\ models = <<>>

\* C14: a failed start leaves the controller idle: no job id, no stream
\* address, busy clear, the error shown, no poller armed and no poll sent.
C14_FailedStartEndsIdle ==
  [][(\E i \in DOMAIN requests : OnStartFail(i)) =>
       /\ jobId' = Null
       /\ streamUrl' = Null
       /\ ~busy'
       /\ requests' = <<>>
       /\ streamError' = FailedToStart
       /\ alertMsg' = "Start failed"
       /\ ~eventsInterval' /\ ~profilingInterval' /\ ~savedFramesInterval'
       /\ UNCHANGED <<eventsReqs, profilingReqs, savedFramesReqs>>]_vars

\* the second start has failed after the first job's run
C14_Witness ==
  /\ streamError = FailedToStart
  /\ alertMsg = "Start failed"
  /\ started = 2
  /\ jobId = Null
  /\ streamUrl = Null
  /\ ~busy

\* C15: a start request is sent only from a state with board, camera and
\* model selected, not busy and no job; a stop, pause or resume request only
\* from a state with a job and not busy; so at most one lifecycle request is
\* outstanding.
C15_RequestsOnlyUnderGuard ==
  /\ [](Len(requests) <= 1)
  /\ [][Len(requests') > Len(requests) =>
          LET r == requests'[Len(requests')]
          IN  /\ r.kind = "start" =>
                   /\ selectedBoardId # NoBoard
                   /\ selectedCameraId # NoSelection
                   /\ selectedModelId # NoSelection
                   /\ ~busy
                   /\ jobId = Null
              /\ r.kind \in {"stop", "pause", "resume"} =>
                   jobId # Null /\ ~busy]_vars

\* a resume request is the one request outstanding
C15_Witness ==
  /\ Len(requests) = 1
  /\ requests[1].kind = "resume"
  /\ jobId # Null
  /\ busy

\* C16: pause/resume sends pause when not paused and resume when paused, flips
\* the paused flag only when the request succeeds, and on failure leaves the
\* flag as it was and shows the error.
C16_PauseFlipsOnlyOnSuccess ==
  [][/\ OnPause =>
          requests'[Len(requests')].kind =
            IF isPaused THEN "resume" ELSE "pause"
     /\ (\E i \in DOMAIN requests : OnPauseOk(i)) => isPaused' = ~isPaused
     /\ (\E i \in DOMAIN requests : OnPauseFail(i)) =>
          isPaused' = isPaused /\ alertMsg' = "Pause/resume failed"
     /\ isPaused' # isPaused =>
          \/ \E i \in DOMAIN requests : OnPauseOk(i)
          \/ ~isPaused']_vars

\* a resume request has failed and the job is still paused
C16_Witness ==
  /\ isPaused
  /\ alertMsg = "Pause/resume failed"
  /\ requests = <<>>
  /\ jobId # Null

\* C17: a failed round of one poller changes no slice, cancels no timer,
\* touches no request of another poller and shows nothing to the operator.
C17_PollFailureIsolated ==
  [][/\ (\/ LoadEventsFail
         \/ \E i \in DOMAIN profilingReqs : LoadProfilingFail(i)
         \/ LoadSavedFramesFail) =>
          UNCHANGED <<events, profiling, savedFrames, eventsInterval,
                      profilingInterval, savedFramesInterval, alertMsg,
                      streamError, jobId, busy>>
     /\ LoadEventsFail => UNCHANGED <<profilingReqs, savedFramesReqs>>
     /\ (\E i \in DOMAIN profilingReqs : LoadProfilingFail(i)) =>
          UNCHANGED <<eventsReqs, savedFramesReqs>>
     /\ LoadSavedFramesFail => UNCHANGED <<eventsReqs, profilingReqs>>]_vars

\* the job's first profiling request has failed: no snapshot, nothing in
\* flight, every timer still armed, nothing shown
C17_Witness ==
  /\ jobId # Null
  /\ profTick = 1
  /\ profilingReqs = <<>>
  /\ profiling = NoProfiling
  /\ eventsInterval /\ profilingInterval /\ savedFramesInterval
  /\ alertMsg = NoAlert

\* C18: every backend operation that receives a non-2xx response fails with
\* an error whose message carries the backend's message field when it is
\* present, otherwise the transport's status text.
C18_ErrorCarriesBackendMessage ==
  (apiResult.answered /\ ~apiResult.response.ok) =>
    /\ apiResult.outcome.threw
    /\ LET r == apiResult.response
           expected == IF r.message # NoMessage THEN r.message
                                                ELSE r.statusText
       IN  expected = "" \/ expected \in Range(apiResult.outcome.message)


\* C19: the job id appears only when a start completes successfully and
\* disappears only when a stop completes successfully, and the lifecycle
\* moves only Idle -> Starting -> Running -> Stopping -> Idle, Starting ->
\* Idle on a failed start and Stopping -> Running on a failed stop.
C19_JobIdTransitions ==
  [][/\ (jobId = Null /\ jobId' # Null) =>
          \E i \in DOMAIN requests : OnStartOk(i)
     /\ (jobId # Null /\ jobId' # jobId) =>
          \E i \in DOMAIN requests : OnStopOk(i) /\ jobId' = Null
     /\ \/ Phase' = Phase
        \/ <<Phase, Phase'>> \in
             {<<"Idle", "Starting">>, <<"Starting", "Running">>,
              <<"Running", "Stopping">>, <<"Stopping", "Idle">>,
              <<"Starting", "Idle">>, <<"Stopping", "Running">>}
     /\ (\E i \in DOMAIN requests : OnStartFail(i)) =>
          Phase = "Starting" /\ Phase' = "Idle"
     /\ (\E i \in DOMAIN requests : OnStopFail(i)) =>
          Phase = "Stopping" /\ Phase' = "Running"]_vars

\* a stop has failed and the job is running still
C19_Witness ==
  /\ Phase = "Running"
  /\ alertMsg = "Stop failed"
  /\ jobId \in backendJobs

\* C20: a poller applies every answer as it arrives, without a generation
\* check: a tick is sent while the previous tick's request is outstanding,
\* and the answer of the earlier tick, arriving after the later one,
\* replaces the fresher snapshot.
C20_LastWriteWins ==
  /\ [][\A i \in DOMAIN profilingReqs :
          (/\ LoadProfilingOk(i)
           /\ profiling # NoProfiling
           /\ profiling[1] = profilingReqs[i][1]
           /\ profiling[2] > profilingReqs[i][2]) =>
             profiling' = profilingReqs[i]]_vars
  /\ [][(ProfilingTick /\ profilingReqs # <<>>) =>
          Len(profilingReqs') = Len(profilingReqs) + 1]_vars

\* the answer of tick 2 is on display while the request of tick 1 is still
\* outstanding
C20_Witness ==
  /\ jobId # Null
  /\ profiling = <<jobId, 2>>
  /\ <<jobId, 1>> \in Range(profilingReqs)

\* C21: a start invoked after a previous job has been stopped sends its
\* request only once the settling delay has been waited: the request leaves
\* from a state in which the delay is pending.
C21_StartWaitsAfterStop ==
  [][(/\ Len(requests') > Len(requests)
      /\ requests'[Len(requests')].kind = "start"
      /\ jobId = Null
      /\ (warmupTimers # <<>> \/ streamUrl # Null)) => settling]_vars

\* C22: a render failure that arrives with the countdown above 0, or with no
\* stream address, or with no job, changes neither the frame-rendered flag
\* nor the error text.
C22_EarlyRenderFailureIgnored ==
  [][(handleImageError /\ (countdown # 0 \/ streamUrl = Null \/ jobId = Null))
       => UNCHANGED <<imageLoaded, streamError>>]_vars

\* C26: a profiling snapshot held while a job is active answers a request
\* issued for that job's id.
C26_SnapshotOfActiveJob ==
  (jobId # Null /\ profiling # NoProfiling) => profiling[1] = jobId

\* C27: with no job active and no start request in flight the warm-up
\* countdown is 0.
C27_NoCountdownWhenIdle ==
  (jobId = Null /\ \A i \in DOMAIN requests : requests[i].kind # "start")
    => countdown = 0

\* C23: a failed camera or model fetch changes nothing but the loading flag,
\* which the first rejection of a load clears: both lists, the selection and
\* everything else stay as they were.
C23_CatalogFailureKeepsLists ==
  [][\A i \in DOMAIN catalogLoads, which \in {"cam", "mod"} :
       CatalogFetchFail(i, which) =>
         /\ UNCHANGED <<cameras, models, boards, selectedBoardId,
                        selectedCameraId, selectedModelId, boardsReq,
                        jobVars, pollVars>>
         /\ catalogLoads[i][OtherFetch(which)] # "fail" => ~loadingModels']_vars

\* the load for the selected board has failed: the lists are empty as
\* before, nothing is outstanding and the loading flag is clear
C23_Witness ==
  /\ selectedBoardId = "b1"
  /\ cameras = <<>>
  /\ models = <<>>
  /\ catalogLoads = <<>>
  /\ ~loadingModels

\* C24: with a board selected and every camera/model fetch answered
\* successfully, the lists are the ones returned for the selected board.
C24_ListsOfSelectedBoard ==
  (selectedBoardId # NoBoard /\ catalogLoads = <<>>) =>
    /\ cameras = CamerasOf(selectedBoardId)
    /\ models = ModelsOf(selectedBoardId)

\* C25: every start request carries a camera and a model of the lists the
\* backend returns for the board the request carries.
C25_StartCarriesOwnResources ==
  \A i \in DOMAIN requests :
    requests[i].kind = "start" =>
      /\ requests[i].camera \in Range(CamerasOf(requests[i].board))
      /\ requests[i].model \in Range(ModelsOf(requests[i].board))

\* C28: while a job is active or a lifecycle request is in flight the
\* selected board, camera and model do not change, and every pause or resume
\* request in flight carries the selected board.
C28_SelectionFrozenWhileActive ==
  /\ [][(jobId # Null \/ requests # <<>>) =>
          UNCHANGED <<selectedBoardId, selectedCameraId,
                      selectedModelId>>]_vars
  /\ [](\A i \in DOMAIN requests :
          requests[i].kind \in {"start", "pause", "resume"} =>
            requests[i].board = selectedBoardId)

\* a pause request for board b2 is in flight for a job started on b2
C28_Witness ==
  /\ Len(requests) = 1
  /\ requests[1].kind = "pause"
  /\ requests[1].board = "b2"
  /\ jobId # Null

====
